---------------------------- MODULE Spec2Model ----------------------------
(***************************************************************************)
(* The recipe API of app/recipe/views.py: three viewsets (RecipeViewSet,   *)
(* TagViewSet, IngredientViewSet), each over its own table, each filtered  *)
(* by the requesting user.                                                 *)
(*                                                                         *)
(* A viewset reads and writes only its own queryset (views.py:20, 59, 66), *)
(* so a behaviour follows one viewset and its table: `viewset' is chosen   *)
(* in Init and the six routes of the router are the actions.  The          *)
(* many-to-many relation between recipes and tags/ingredients is not       *)
(* modelled; no property below reads it.                                   *)
(***************************************************************************)
EXTENDS Integers, Sequences, FiniteSets

VARIABLES viewset,   \* the viewset class the requests are routed to
          rows,      \* its table: the set of stored rows [id, user, data]
          nextId,    \* the table's auto-increment primary key
          creator,   \* history: id -> the user who authenticated its create
          req,       \* the last request [action, user, id, payload]
          res        \* its response [status, data]

vars == <<viewset, rows, nextId, creator, req, res>>

-----------------------------------------------------------------------------
(* Bounds and input sets *)

\* Primary keys run over 1..MaxId: at most MaxId recipes are ever created.
MaxId == 2

Users == {"u1", "u2"}
\* request.user of a request that carries no token
Anon == "anon"
Other(u) == CHOOSE v \in Users : v # u

ViewSets == {"RecipeViewSet", "TagViewSet", "IngredientViewSet"}
Actions == {"list", "retrieve", "create", "update", "partial_update", "destroy"}

HTTP_200_OK == 200
HTTP_201_CREATED == 201
HTTP_204_NO_CONTENT == 204
HTTP_400_BAD_REQUEST == 400
HTTP_401_UNAUTHORIZED == 401
HTTP_404_NOT_FOUND == 404
HTTP_405_METHOD_NOT_ALLOWED == 405

NoPayload == [k \in {} |-> ""]

\* The rows of the tag and of the ingredient table when the behaviour starts
\* (neither viewset has a create route, so the rows predate the requests).
AttrFixture ==
    { [id |-> 1, user |-> "u1", data |-> [name |-> "Vegan"]],
      [id |-> 2, user |-> "u1", data |-> [name |-> "Dessert"]],
      [id |-> 3, user |-> "u2", data |-> [name |-> "Breakfast"]] }

\* Collation rank of the names in use (ORDER BY name).
NameOrd(n) ==
    CASE n = "Apple" -> 1
      [] n = "Breakfast" -> 2
      [] n = "Dessert" -> 3
      [] n = "Vegan" -> 4

-----------------------------------------------------------------------------
(* Serializers and model fields (recipe/serializers.py, core/models.py) *)

ModelFields(vs) ==
    IF vs = "RecipeViewSet"
    THEN {"title", "time_minutes", "price", "description", "link"}
    ELSE {"name"}

\* Fields a payload must carry unless the update is partial.
RequiredFields(vs) ==
    IF vs = "RecipeViewSet" THEN {"title", "time_minutes", "price"} ELSE {"name"}

\* Value of a field the create payload leaves out (blank=True).
FieldDefaults(vs) == [k \in ModelFields(vs) |-> ""]

\* Fields a serializer class renders besides id.
SerializerFields(cls) ==
    CASE cls = "RecipeSerializer" -> {"title", "time_minutes", "price", "link"}
      [] cls = "RecipeDetailSerializer" ->
            {"title", "time_minutes", "price", "link", "description"}
      [] cls = "TagSerializer" -> {"name"}

Serialize(cls, r) ==
    [id |-> r.id, fields |-> [k \in SerializerFields(cls) |-> r.data[k]]]

\* serializer.is_valid(): a missing required field is an error unless partial.
IsValid(vs, payload, partial) ==
    partial \/ RequiredFields(vs) \subseteq DOMAIN payload

\* serializer.validated_data: the payload's writable model fields; "user" and
\* any other key the serializer does not declare are dropped.
validated_data(vs, payload) ==
    [k \in (DOMAIN payload) \cap ModelFields(vs) |-> payload[k]]

Overlay(f, g) == [k \in DOMAIN f |-> IF k \in DOMAIN g THEN g[k] ELSE f[k]]

-----------------------------------------------------------------------------
(* views.py *)

\* serializer_class of each viewset.
serializer_class(vs) ==
    IF vs = "RecipeViewSet" THEN "RecipeDetailSerializer" ELSE "TagSerializer"

\* Mutant: the recipe viewset lacks DestroyModelMixin.
MixinActions_no_destroy(vs) ==
    IF vs = "RecipeViewSet"
    THEN Actions \ {"destroy"}
    ELSE {"list", "update", "partial_update", "destroy"}

\* Mutant: BaseRecipeAttrViewSet is a ModelViewSet too.
MixinActions_model_viewset(vs) == Actions

\* The actions a viewset class inherits: ModelViewSet has all six,
\* BaseRecipeAttrViewSet mixes in List, Update and Destroy only.
MixinActions(vs) ==
    IF vs = "RecipeViewSet"
    THEN Actions
    ELSE {"list", "update", "partial_update", "destroy"}

\* Mutant: permission_classes = (AllowAny,)
permission_classes_allow_any(u) == TRUE

\* permission_classes = (IsAuthenticated,)
permission_classes(u) == u # Anon

\* Mutant: .order_by("id") and .order_by("name"), the minus sign lost
OrderKey_ascending(vs, r) ==
    IF vs = "RecipeViewSet" THEN 0 - r.id ELSE 0 - NameOrd(r.data.name)

\* .order_by("-id") for recipes, .order_by("-name") for tags and ingredients
OrderKey(vs, r) == IF vs = "RecipeViewSet" THEN r.id ELSE NameOrd(r.data.name)

\* The orders the database may return the rows of S in under ORDER BY key DESC:
\* rows with equal keys come in any order.
order_by(vs, S) ==
    { s \in [1..Cardinality(S) -> S] :
        /\ \A i, j \in 1..Cardinality(S) : i # j => s[i] # s[j]
        /\ \A i, j \in 1..Cardinality(S) :
              i < j => OrderKey(vs, s[i]) >= OrderKey(vs, s[j]) }

\* Mutant: the filter is left out of get_object's queryset
filter_user_none(table, u) == table

\* self.queryset.filter(user=self.request.user)
filter_user(table, u) == { r \in table : r.user = u }

\* Mutant: return self.queryset.order_by(...), every user's rows
get_queryset_unfiltered(vs, table, u) == order_by(vs, table)

\* get_queryset(): the possible result lists for request.user = u
get_queryset(vs, table, u) == order_by(vs, filter_user(table, u))

\* Mutant: no branch on self.action
get_serializer_class_fixed(vs, action) == serializer_class(vs)

\* get_serializer_class()
get_serializer_class(vs, action) ==
    IF vs = "RecipeViewSet" /\ action = "list"
    THEN "RecipeSerializer"
    ELSE serializer_class(vs)

\* Mutant: serializer.save(user=<the payload's user, if it names one>)
perform_create_payload_user(vs, u, payload, id) ==
    [id |-> id,
     user |-> IF "user" \in DOMAIN payload THEN payload["user"] ELSE u,
     data |-> Overlay(FieldDefaults(vs), validated_data(vs, payload))]

\* Mutant: serializer.save(), the owner is not set
perform_create_no_user(vs, u, payload, id) ==
    [id |-> id, user |-> "none",
     data |-> Overlay(FieldDefaults(vs), validated_data(vs, payload))]

\* perform_create(): serializer.save(user=self.request.user)
perform_create(vs, u, payload, id) ==
    [id |-> id, user |-> u,
     data |-> Overlay(FieldDefaults(vs), validated_data(vs, payload))]

\* Mutant: the update rebuilds the row from the payload alone
perform_update_replace(vs, r, payload) ==
    [r EXCEPT !.data = Overlay(FieldDefaults(vs), validated_data(vs, payload))]

\* perform_update() of UpdateModelMixin: serializer.save()
perform_update(vs, r, payload) ==
    [r EXCEPT !.data = Overlay(r.data, validated_data(vs, payload))]

\* get_object(): the row with pk = id in the filtered queryset, or none (404)
get_object(table, u, id) == { r \in filter_user(table, u) : r.id = id }

-----------------------------------------------------------------------------
(* Payloads the clients send *)

RecipeRequired == [title |-> "Sample Recipe", time_minutes |-> "10", price |-> "5.25"]
RecipeFull ==
    [title |-> "Sample Recipe", time_minutes |-> "10", price |-> "5.25",
     description |-> "Sample description", link |-> "https://sample.com/recipe.pdf"]
RecipeNewFull ==
    [title |-> "New title", time_minutes |-> "25", price |-> "5.99",
     description |-> "New description", link |-> "https://sample.com/new.pdf"]

WithUser(p, v) ==
    [k \in DOMAIN p \cup {"user"} |-> IF k = "user" THEN v ELSE p[k]]

\* POST bodies: the required fields only, every field with a "user" key naming
\* another user, and one that lacks required fields.
CreatePayloads(vs, u) ==
    IF vs = "RecipeViewSet"
    THEN {RecipeRequired, WithUser(RecipeFull, Other(u)), [title |-> "Sample Recipe"]}
    ELSE {[name |-> "Apple"]}

\* PUT bodies: every field, every field with a "user" key naming another user,
\* and one that lacks required fields.
PutPayloads(vs, u) ==
    IF vs = "RecipeViewSet"
    THEN {RecipeNewFull, WithUser(RecipeNewFull, Other(u)), [title |-> "New title"]}
    ELSE {[name |-> "Apple"], [name |-> "Dessert"], NoPayload}

\* PATCH bodies: one field, and only a "user" key naming another user.
PatchPayloads(vs, u) ==
    IF vs = "RecipeViewSet"
    THEN {[title |-> "New title"], WithUser(NoPayload, Other(u))}
    ELSE {[name |-> "Apple"], [name |-> "Dessert"], NoPayload}

\* The primary keys the detail routes are asked for.
Ids(vs) == IF vs = "RecipeViewSet" THEN 1..MaxId ELSE { r.id : r \in AttrFixture }

-----------------------------------------------------------------------------
(* Requests: APIView.dispatch runs authentication and permissions first,   *)
(* then looks the handler up (405 if the viewset has none), then runs it.  *)

Request(action, u, id, payload) ==
    [action |-> action, user |-> u, id |-> id, payload |-> payload]

Response(status, data) == [status |-> status, data |-> data]

\* The request is answered with an error status and nothing is written.
Reject(status) ==
    /\ res' = Response(status, <<>>)
    /\ UNCHANGED <<viewset, rows, nextId, creator>>

\* The status with which dispatch refuses the request before any handler runs,
\* or 0 if the handler runs.
Refusal(u, action) ==
    IF ~permission_classes(u) THEN HTTP_401_UNAUTHORIZED
    ELSE IF action \notin MixinActions(viewset) THEN HTTP_405_METHOD_NOT_ALLOWED
    ELSE 0

\* GET /<resource>/
List(u) ==
    /\ req' = Request("list", u, 0, NoPayload)
    /\ IF Refusal(u, "list") # 0 THEN Reject(Refusal(u, "list"))
       ELSE /\ \E q \in get_queryset(viewset, rows, u) :
                  res' = Response(HTTP_200_OK,
                            [i \in DOMAIN q |->
                               Serialize(get_serializer_class(viewset, "list"), q[i])])
            /\ UNCHANGED <<viewset, rows, nextId, creator>>

\* GET /<resource>/<id>/
Retrieve(u, id) ==
    /\ req' = Request("retrieve", u, id, NoPayload)
    /\ IF Refusal(u, "retrieve") # 0 THEN Reject(Refusal(u, "retrieve"))
       ELSE IF get_object(rows, u, id) = {} THEN Reject(HTTP_404_NOT_FOUND)
       ELSE /\ \E r \in get_object(rows, u, id) :
                  res' = Response(HTTP_200_OK,
                            <<Serialize(get_serializer_class(viewset, "retrieve"), r)>>)
            /\ UNCHANGED <<viewset, rows, nextId, creator>>

\* POST /<resource>/
Create(u, payload) ==
    /\ req' = Request("create", u, 0, payload)
    /\ IF Refusal(u, "create") # 0 THEN Reject(Refusal(u, "create"))
       ELSE IF ~IsValid(viewset, payload, FALSE) THEN Reject(HTTP_400_BAD_REQUEST)
       ELSE /\ nextId <= MaxId
            /\ LET r == perform_create(viewset, u, payload, nextId) IN
                 /\ rows' = rows \cup {r}
                 /\ res' = Response(HTTP_201_CREATED,
                              <<Serialize(get_serializer_class(viewset, "create"), r)>>)
            /\ creator' = [creator EXCEPT ![nextId] = u]
            /\ nextId' = nextId + 1
            /\ UNCHANGED viewset

\* PUT (partial = FALSE) and PATCH (partial = TRUE) /<resource>/<id>/
UpdateObject(action, partial, u, id, payload) ==
    /\ req' = Request(action, u, id, payload)
    /\ IF Refusal(u, action) # 0 THEN Reject(Refusal(u, action))
       ELSE IF get_object(rows, u, id) = {} THEN Reject(HTTP_404_NOT_FOUND)
       ELSE IF ~IsValid(viewset, payload, partial) THEN Reject(HTTP_400_BAD_REQUEST)
       ELSE /\ \E r \in get_object(rows, u, id) :
                 LET n == perform_update(viewset, r, payload) IN
                   /\ rows' = (rows \ {r}) \cup {n}
                   /\ res' = Response(HTTP_200_OK,
                                <<Serialize(get_serializer_class(viewset, action), n)>>)
            /\ UNCHANGED <<viewset, nextId, creator>>

Update(u, id, payload) == UpdateObject("update", FALSE, u, id, payload)

PartialUpdate(u, id, payload) == UpdateObject("partial_update", TRUE, u, id, payload)

\* DELETE /<resource>/<id>/
Destroy(u, id) ==
    /\ req' = Request("destroy", u, id, NoPayload)
    /\ IF Refusal(u, "destroy") # 0 THEN Reject(Refusal(u, "destroy"))
       ELSE IF get_object(rows, u, id) = {} THEN Reject(HTTP_404_NOT_FOUND)
       ELSE /\ \E r \in get_object(rows, u, id) : rows' = rows \ {r}
            /\ res' = Response(HTTP_204_NO_CONTENT, <<>>)
            /\ UNCHANGED <<viewset, nextId, creator>>

-----------------------------------------------------------------------------

Init ==
    /\ viewset \in ViewSets
    /\ rows = IF viewset = "RecipeViewSet" THEN {} ELSE AttrFixture
    /\ nextId = IF viewset = "RecipeViewSet" THEN 1 ELSE Cardinality(AttrFixture) + 1
    /\ creator = [i \in 1..MaxId |-> "none"]
    /\ req = Request("none", Anon, 0, NoPayload)
    /\ res = Response(0, <<>>)

Next ==
    \/ \E u \in Users \cup {Anon} : List(u)
    \/ \E u \in Users \cup {Anon}, id \in Ids(viewset) : Retrieve(u, id)
    \/ \E u \in Users \cup {Anon} : \E p \in CreatePayloads(viewset, u) : Create(u, p)
    \/ \E u \in Users \cup {Anon}, id \in Ids(viewset) :
          \E p \in PutPayloads(viewset, u) : Update(u, id, p)
    \/ \E u \in Users \cup {Anon}, id \in Ids(viewset) :
          \E p \in PatchPayloads(viewset, u) : PartialUpdate(u, id, p)
    \/ \E u \in Users \cup {Anon}, id \in Ids(viewset) : Destroy(u, id)

Spec == Init /\ [][Next]_vars

-----------------------------------------------------------------------------
(* Properties *)

IsRecipe == viewset = "RecipeViewSet"
Authenticated == req.user \in Users
DetailActions == {"retrieve", "update", "partial_update", "destroy"}
RecipeFieldNames == {"title", "time_minutes", "price", "description", "link"}
SummaryFieldNames == {"title", "time_minutes", "price", "link"}

\* The response lists exactly the rows of `table' owned by u, each once.
ListsExactlyOwned(data, table, u) ==
    /\ Len(data) = Cardinality({ r \in table : r.user = u })
    /\ \A r \in table : r.user = u => \E i \in DOMAIN data : data[i].id = r.id
    /\ \A i \in DOMAIN data : \E r \in table : r.id = data[i].id /\ r.user = u

\* C1: a list request on the recipe endpoint authenticated as U returns 200 and
\* exactly the recipes U owns, none of another user and none of U's missing, in
\* descending id order, whatever requests came before.
C1_ListOwnRecipes ==
    (IsRecipe /\ req.action = "list" /\ Authenticated) =>
        /\ res.status = 200
        /\ ListsExactlyOwned(res.data, rows, req.user)
        /\ \A i, j \in DOMAIN res.data : i < j => res.data[i].id > res.data[j].id

C1_Witness ==
    /\ IsRecipe /\ req.action = "list" /\ req.user = "u1"
    /\ res.status = 200 /\ Len(res.data) = 1
    /\ \E r \in rows : r.user = "u2"

\* C2: a request without authentication, to any of the three endpoints and for
\* any of the six operations, is answered 401 and changes no stored row.
C2_UnauthenticatedRejected ==
    [][req'.user = Anon =>
          res'.status = 401 /\ rows' = rows /\ nextId' = nextId]_vars

C2_Witness ==
    /\ req.user = Anon /\ req.action = "destroy" /\ res.status = 401
    /\ \E r \in rows : r.id = req.id

\* C3: a retrieve, update, partial-update or delete request by an authenticated
\* user for an existing recipe of another user is answered 404 and leaves every
\* recipe as it was.
C3_OtherUsersRecipeNotFound ==
    [][(/\ IsRecipe /\ req'.action \in DetailActions /\ req'.user \in Users
        /\ \E r \in rows : r.id = req'.id /\ r.user # req'.user)
         => res'.status = 404 /\ rows' = rows]_vars

C3_Witness ==
    /\ IsRecipe /\ req.action = "destroy" /\ Authenticated /\ res.status = 404
    /\ \E r \in rows : r.id = req.id /\ r.user # req.user

\* C4: every stored recipe is owned by the user who authenticated its create
\* request, also after updates whose payload names another user.
C4_OwnerIsCreator ==
    IsRecipe => \A r \in rows : r.user = creator[r.id]

C4_Witness ==
    /\ IsRecipe /\ req.action \in {"update", "partial_update"} /\ res.status = 200
    /\ "user" \in DOMAIN req.payload /\ req.payload["user"] # req.user
    /\ \E r \in rows : r.id = req.id

\* C5: a create request by an authenticated user with the required fields
\* returns 201 and adds exactly one recipe, with a fresh id, the payload's values
\* in the fields it names and the requester as owner; the others are unchanged.
C5_CreateAddsOwnRecipe ==
    [][(/\ IsRecipe /\ req'.action = "create" /\ req'.user \in Users
        /\ {"title", "time_minutes", "price"} \subseteq DOMAIN req'.payload)
         => /\ res'.status = 201
            /\ \E n \in rows' :
                 /\ rows' = rows \cup {n}
                 /\ \A r \in rows : r.id # n.id
                 /\ n.id = res'.data[1].id
                 /\ n.user = req'.user
                 /\ \A k \in RecipeFieldNames \cap DOMAIN req'.payload :
                       n.data[k] = req'.payload[k]]_vars

C5_Witness ==
    /\ IsRecipe /\ req.action = "create" /\ res.status = 201
    /\ "user" \in DOMAIN req.payload /\ req.payload["user"] # req.user
    /\ Cardinality(rows) = 2

\* C6: a delete request by an authenticated user for a recipe of their own
\* returns 204, removes the recipe with that id and leaves the others unchanged.
C6_DeleteOwnRecipe ==
    [][(/\ IsRecipe /\ req'.action = "destroy" /\ req'.user \in Users
        /\ \E r \in rows : r.id = req'.id /\ r.user = req'.user)
         => /\ res'.status = 204
            /\ rows' = { r \in rows : r.id # req'.id }]_vars

C6_Witness ==
    /\ IsRecipe /\ req.action = "destroy" /\ res.status = 204
    /\ rows # {} /\ \A r \in rows : r.id # req.id

\* C7: a PATCH, or a PUT that carries the required fields, for a recipe of the
\* requester returns 200, sets the fields the payload names to its values and
\* leaves the other fields, the id, the owner and every other recipe unchanged.
C7_UpdateSetsNamedFields ==
    [][(/\ IsRecipe /\ req'.action \in {"update", "partial_update"}
        /\ req'.user \in Users
        /\ \E r \in rows : r.id = req'.id /\ r.user = req'.user
        /\ \/ req'.action = "partial_update"
           \/ {"title", "time_minutes", "price"} \subseteq DOMAIN req'.payload)
         => /\ res'.status = 200
            /\ \E r \in rows, n \in rows' :
                 /\ r.id = req'.id /\ n.id = r.id /\ n.user = r.user
                 /\ rows' \ {n} = rows \ {r}
                 /\ \A k \in RecipeFieldNames :
                       n.data[k] = IF k \in DOMAIN req'.payload
                                   THEN req'.payload[k] ELSE r.data[k]]_vars

C7_Witness ==
    /\ IsRecipe /\ req.action = "partial_update" /\ res.status = 200
    /\ DOMAIN req.payload = {"title"}
    /\ Cardinality(rows) = 2
    /\ \E r \in rows : /\ r.id = req.id /\ r.data["title"] = "New title"
                        /\ r.data["link"] = "https://sample.com/recipe.pdf"

\* C8 as stated: each of the three resources exposes all six operations to an
\* authenticated user, so no authenticated request is answered 405.
C8_AllSixExposed ==
    Authenticated => res.status # 405

\* C8 amended: the recipe endpoint exposes all six operations; the tag and the
\* ingredient endpoint expose list, update, partial-update and delete only: an
\* authenticated create or retrieve there is answered 405 and changes nothing.
C8_ExposedOperations ==
    [][req'.user \in Users =>
          /\ res'.status = 405 <=>
                (~IsRecipe /\ req'.action \in {"create", "retrieve"})
          /\ res'.status = 405 => rows' = rows /\ nextId' = nextId]_vars

C8_Witness ==
    /\ viewset = "TagViewSet" /\ req.action = "create" /\ Authenticated
    /\ res.status = 405

\* C9: on the tag and the ingredient endpoint a list request by U returns
\* exactly the rows U owns in descending name order, and an update,
\* partial-update or delete by U of a row of another user is answered 404 and
\* leaves the table unchanged.
C9_AttrsScopedPerUser ==
    [][(~IsRecipe /\ req'.user \in Users) =>
          /\ req'.action = "list" =>
                /\ res'.status = 200
                /\ ListsExactlyOwned(res'.data, rows', req'.user)
                /\ \A i \in DOMAIN res'.data : \E r \in rows' :
                      r.id = res'.data[i].id /\ r.data["name"] = res'.data[i].fields["name"]
                /\ \A i, j \in DOMAIN res'.data :
                      i < j => NameOrd(res'.data[i].fields["name"])
                                 >= NameOrd(res'.data[j].fields["name"])
          /\ (/\ req'.action \in {"update", "partial_update", "destroy"}
              /\ \E r \in rows : r.id = req'.id /\ r.user # req'.user)
               => res'.status = 404 /\ rows' = rows]_vars

C9_Witness ==
    /\ viewset = "IngredientViewSet" /\ req.action = "list" /\ req.user = "u1"
    /\ Len(res.data) = 2
    /\ res.data[1].fields["name"] # res.data[2].fields["name"]
    /\ \E r \in rows : r.user = "u2"

\* The representation `item' renders the stored row with its id, with exactly
\* the fields `names'.
Renders(item, table, names) ==
    /\ DOMAIN item.fields = names
    /\ \E r \in table : r.id = item.id /\ \A k \in names : item.fields[k] = r.data[k]

\* C10: on the recipe endpoint a list renders every item in the summary
\* representation (no description); retrieve, create, update and partial-update
\* render the detail representation; a retrieve of an own recipe returns 200
\* with the detail representation of that recipe and changes no stored row.
C10_RepresentationByAction ==
    [][(IsRecipe /\ req'.user \in Users) =>
          /\ req'.action = "list" =>
                \A i \in DOMAIN res'.data : Renders(res'.data[i], rows', SummaryFieldNames)
          /\ (/\ req'.action \in {"retrieve", "create", "update", "partial_update"}
              /\ res'.status \in {200, 201})
               => Len(res'.data) = 1 /\ Renders(res'.data[1], rows', RecipeFieldNames)
          /\ (/\ req'.action = "retrieve"
              /\ \E r \in rows : r.id = req'.id /\ r.user = req'.user)
               => /\ res'.status = 200
                  /\ res'.data[1].id = req'.id
                  /\ rows' = rows /\ nextId' = nextId]_vars

C10_Witness ==
    /\ IsRecipe /\ req.action = "retrieve" /\ Authenticated /\ res.status = 200
    /\ res.data[1].id = req.id
    /\ res.data[1].fields["description"] = "Sample description"

=============================================================================
